---- MODULE Spec2Model ----
(***************************************************************************)
(* fin-tilt: portfolio rebalancing (src/main.go, lines 1-272).             *)
(*                                                                         *)
(* Amounts are Go ints holding cents.  Percentages are float64; they are   *)
(* modelled bit-exactly (binary64, round-to-nearest-even, every operation  *)
(* rounded separately as the amd64 build does) on top of an arbitrary      *)
(* precision natural-number layer, because TLC's own integers are 32 bits  *)
(* wide.  Strings are sequences of one-character strings.                  *)
(***************************************************************************)
EXTENDS Integers, Sequences, FiniteSets, TLC

VARIABLES
    pc,               \* position of the process in main()
    config,           \* the decoded Config.Stocks (YAML), a sequence of Stock
    cmd,              \* flag.Arg(0): "rebalance" or "deposit"
    argAmount,        \* -toDeposit <dollars> / deposit <dollars>
    total,            \* rebalance: total (cents)
    amountsBySymbol,  \* rebalance: amountsBySymbol (a Go map: absent key = 0)
    processed,        \* the CSV records reader.Read() has returned so far
    report,           \* rebalance: the drift entries printed, in print order
    totalLine,        \* rebalance: the final "Total:" line, <<amount>> once printed
    deposits,         \* deposit: the "<symbol>: <amount>" lines printed
    status,           \* what the run reported to its caller
    arg,              \* utility harness: the argument of the call
    ret               \* utility harness: what the call returned

vars == <<pc, config, cmd, argAmount, total, amountsBySymbol, processed,
          report, totalLine, deposits, status, arg, ret>>

progVars == <<config, cmd, argAmount, total, amountsBySymbol, processed,
              report, totalLine, deposits, status>>

(***************************************************************************)
(* Natural numbers of any size: little-endian sequences of 12-bit limbs,   *)
(* <<>> being zero and the last limb never 0.                              *)
(***************************************************************************)
Base == 2^12

Abs(i) == IF i < 0 THEN -i ELSE i
Sgn(i) == IF i < 0 THEN -1 ELSE 1
Min(a, b) == IF a < b THEN a ELSE b

RECURSIVE Norm(_)
Norm(n) ==
    IF n = <<>> THEN <<>>
    ELSE IF n[Len(n)] = 0 THEN Norm(SubSeq(n, 1, Len(n) - 1)) ELSE n

RECURSIVE FromInt(_)
FromInt(k) == IF k = 0 THEN <<>> ELSE <<k % Base>> \o FromInt(k \div Base)

RECURSIVE ToInt(_)
ToInt(n) == IF n = <<>> THEN 0 ELSE n[1] + Base * ToInt(Tail(n))

RECURSIVE MulC(_, _, _)
MulC(n, c, carry) ==
    IF n = <<>> THEN FromInt(carry)
    ELSE LET t == n[1] * c + carry
         IN  <<t % Base>> \o MulC(Tail(n), c, t \div Base)

MulSmall(n, c) == Norm(MulC(n, c, 0))

RECURSIVE DivRec(_, _)
DivRec(n, d) ==
    IF n = <<>> THEN [q |-> <<>>, r |-> 0]
    ELSE LET hi == DivRec(Tail(n), d)
             t  == hi.r * Base + n[1]
         IN  [q |-> <<t \div d>> \o hi.q, r |-> t % d]

DivSmall(n, d) == LET x == DivRec(n, d) IN [q |-> Norm(x.q), r |-> x.r]

RECURSIVE AddC(_, _, _)
AddC(a, b, carry) ==
    IF a = <<>> /\ b = <<>> THEN FromInt(carry)
    ELSE LET x == IF a = <<>> THEN 0 ELSE a[1]
             y == IF b = <<>> THEN 0 ELSE b[1]
             t == x + y + carry
         IN  <<t % Base>> \o AddC(IF a = <<>> THEN a ELSE Tail(a),
                                  IF b = <<>> THEN b ELSE Tail(b), t \div Base)

Add(a, b) == Norm(AddC(a, b, 0))

RECURSIVE SubC(_, _, _)
SubC(a, b, borrow) ==
    IF a = <<>> THEN <<>>
    ELSE LET y == IF b = <<>> THEN 0 ELSE b[1]
             t == a[1] - y - borrow
         IN  <<t % Base>> \o SubC(Tail(a), IF b = <<>> THEN b ELSE Tail(b),
                                  IF t < 0 THEN 1 ELSE 0)

\* a - b, for a >= b
Sub(a, b) == Norm(SubC(a, b, 0))

RECURSIVE CmpTop(_, _, _)
CmpTop(a, b, i) ==
    IF i = 0 THEN 0
    ELSE IF a[i] # b[i] THEN (IF a[i] < b[i] THEN -1 ELSE 1)
    ELSE CmpTop(a, b, i - 1)

\* -1, 0, 1 as a < b, a = b, a > b
Cmp(a, b) ==
    IF Len(a) # Len(b) THEN (IF Len(a) < Len(b) THEN -1 ELSE 1)
    ELSE CmpTop(a, b, Len(a))

RECURSIVE BitLenInt(_)
BitLenInt(k) == IF k = 0 THEN 0 ELSE 1 + BitLenInt(k \div 2)

BitLen(n) ==
    IF n = <<>> THEN 0 ELSE 12 * (Len(n) - 1) + BitLenInt(n[Len(n)])

Shl(n, k) ==
    IF n = <<>> THEN <<>>
    ELSE [i \in 1..(k \div 12) |-> 0] \o MulSmall(n, 2^(k % 12))

\* n shifted right by k bits; sticky: a 1 bit was shifted out
Shr(n, k) ==
    LET w    == Min(k \div 12, Len(n))
        d    == DivSmall(SubSeq(n, w + 1, Len(n)), 2^(k % 12))
    IN  [q |-> d.q, sticky |-> d.r # 0 \/ \E i \in 1..w : n[i] # 0]

IsOdd(n) == n # <<>> /\ n[1] % 2 = 1

(***************************************************************************)
(* float64.  A value is [k, s, m, e]: k = "fin" is s * m * 2^e with s the  *)
(* sign (1 or -1) and m either zero or a 53-bit natural; k = "inf" is      *)
(* s * infinity; k = "nan" is NaN.  The amounts and percentages of this    *)
(* program stay far from the subnormal and overflow ranges.                *)
(***************************************************************************)
FZero(s) == [k |-> "fin", s |-> s, m |-> <<>>, e |-> 0]
FNaN     == [k |-> "nan", s |-> 1, m |-> <<>>, e |-> 0]
FInf(s)  == [k |-> "inf", s |-> s, m |-> <<>>, e |-> 0]

IsZero(x) == x.k = "fin" /\ x.m = <<>>

\* s * (n + d) * 2^e with 0 <= d < 1 and d > 0 iff sticky, rounded to the
\* nearest float64, ties to even (sticky requires n of 54 bits or more)
RoundBits(s, n, e, sticky) ==
    LET L == BitLen(n)
    IN  IF n = <<>> THEN FZero(s)
        ELSE IF L <= 53
        THEN [k |-> "fin", s |-> s, m |-> Shl(n, 53 - L), e |-> e - (53 - L)]
        ELSE LET sh    == L - 53
                 a     == Shr(n, sh - 1)
                 guard == IsOdd(a.q)
                 b     == Shr(a.q, 1).q
                 up    == guard /\ (a.sticky \/ sticky \/ IsOdd(b))
                 m1    == IF up THEN Add(b, <<1>>) ELSE b
             IN  IF BitLen(m1) = 54
                 THEN [k |-> "fin", s |-> s, m |-> Shr(m1, 1).q, e |-> e + sh + 1]
                 ELSE [k |-> "fin", s |-> s, m |-> m1, e |-> e + sh]

\* float64(i)
FFromInt(i) == RoundBits(Sgn(i), FromInt(Abs(i)), 0, FALSE)

FNeg(x) == [x EXCEPT !.s = -x.s]

FAbs(x) == [x EXCEPT !.s = 1]

\* x / float64(d), d an int of at most 18 bits
FDivInt(x, d) ==
    IF x.k = "nan" THEN FNaN
    ELSE IF x.k = "inf" THEN FInf(x.s * Sgn(d))
    ELSE IF d = 0 THEN (IF IsZero(x) THEN FNaN ELSE FInf(x.s))
    ELSE IF IsZero(x) THEN FZero(x.s * Sgn(d))
    ELSE LET qr == DivSmall(Shl(x.m, 20), Abs(d))
         IN  RoundBits(x.s * Sgn(d), qr.q, x.e - 20, qr.r # 0)

\* x * float64(c), c an int of at most 18 bits
FMulInt(x, c) ==
    IF x.k = "nan" THEN FNaN
    ELSE IF x.k = "inf" THEN (IF c = 0 THEN FNaN ELSE FInf(x.s * Sgn(c)))
    ELSE IF IsZero(x) \/ c = 0 THEN FZero(x.s * Sgn(c))
    ELSE RoundBits(x.s * Sgn(c), MulSmall(x.m, Abs(c)), x.e, FALSE)

\* x + y
FAdd(x, y) ==
    IF x.k = "nan" \/ y.k = "nan" THEN FNaN
    ELSE IF x.k = "inf" /\ y.k = "inf" THEN (IF x.s = y.s THEN x ELSE FNaN)
    ELSE IF x.k = "inf" THEN x
    ELSE IF y.k = "inf" THEN y
    ELSE IF IsZero(x) /\ IsZero(y) THEN FZero(IF x.s = -1 /\ y.s = -1 THEN -1 ELSE 1)
    ELSE IF IsZero(x) THEN y
    ELSE IF IsZero(y) THEN x
    ELSE LET e  == Min(x.e, y.e)
             X  == Shl(x.m, x.e - e)
             Y  == Shl(y.m, y.e - e)
             c  == Cmp(X, Y)
         IN  IF x.s = y.s THEN RoundBits(x.s, Add(X, Y), e, FALSE)
             ELSE IF c = 0 THEN FZero(1)
             ELSE IF c > 0 THEN RoundBits(x.s, Sub(X, Y), e, FALSE)
             ELSE RoundBits(y.s, Sub(Y, X), e, FALSE)

\* x - y
FSub(x, y) == FAdd(x, FNeg(y))

\* x > y (false when either is NaN)
FGreater(x, y) ==
    LET d == FSub(x, y) IN d.k # "nan" /\ ~IsZero(d) /\ d.s = 1

\* x = y as Go's == on float64 (false when either is NaN, -0 = +0)
FEq(x, y) == x.k # "nan" /\ y.k # "nan" /\ IsZero(FSub(x, y))

\* int(math.Round(x)) of a finite x: half away from zero
RoundToInt(x) ==
    IF IsZero(x) THEN 0
    ELSE IF x.e >= 0 THEN x.s * ToInt(Shl(x.m, x.e))
    ELSE x.s * ((ToInt(Shr(x.m, -x.e - 1).q) + 1) \div 2)

\* int(math.Floor(x)) of a finite x
FloorToInt(x) ==
    IF IsZero(x) THEN 0
    ELSE IF x.e >= 0 THEN x.s * ToInt(Shl(x.m, x.e))
    ELSE LET t == Shr(x.m, -x.e)
         IN  IF x.s = 1 THEN ToInt(t.q)
             ELSE -(ToInt(t.q) + (IF t.sticky THEN 1 ELSE 0))

(***************************************************************************)
(* The float64 expressions of the program.                                 *)
(***************************************************************************)
\* Percentages are written in the configuration as decimals with two
\* places; the model holds the literal in hundredths of a percent and
\* Pct gives the float64 the YAML decoder delivers for it.
PctScale == 100

Pct(units) == FDivInt(FFromInt(units), PctScale)

\* the float64 literals 100.0 and 1e-9 (0x1.12e0be826d695p-30)
Hundred   == FFromInt(100)
Tolerance == [k |-> "fin", s |-> 1, m |-> <<1685, 621, 3048, 736, 17>>, e |-> -82]

\* (float64(currentAmount) / float64(total)) * 100
CurrentPercentage(currentAmount, tot) ==
    FMulInt(FDivInt(FFromInt(currentAmount), tot), 100)

\* currentPercentage - stock.TargetPercentage
Drift(currentPercentage, target) == FSub(currentPercentage, target)

\* float64(total) * (-drift / 100)
AmountNeededF(tot, drift) == FMulInt(FDivInt(FNeg(drift), 100), tot)

\* float64(amount) * (stock.TargetPercentage / 100)
DepositShareF(amount, target) == FMulInt(FDivInt(target, 100), amount)

RECURSIVE SumPct(_, _)
\* totalPercentage after the stocks from i on have been added to acc
SumPct(stocks, acc) ==
    IF stocks = <<>> THEN acc
    ELSE SumPct(Tail(stocks), FAdd(acc, Pct(Head(stocks).TargetPercentage)))

\* !(math.Abs(totalPercentage-100.0) > 1e-9)
SumOk(stocks) ==
    ~FGreater(FAbs(FSub(SumPct(stocks, FZero(1)), Hundred)), Tolerance)

(***************************************************************************)
(* Strings (sequences of characters) and the strconv / strings functions   *)
(* the program calls.                                                      *)
(***************************************************************************)
Digits == <<"0", "1", "2", "3", "4", "5", "6", "7", "8", "9">>

IsDigit(c) == \E i \in 1..10 : Digits[i] = c

DigitVal(c) == (CHOOSE i \in 1..10 : Digits[i] = c) - 1

RECURSIVE ItoaNat(_)
ItoaNat(k) ==
    IF k < 10 THEN <<Digits[k + 1]>>
    ELSE ItoaNat(k \div 10) \o <<Digits[(k % 10) + 1]>>

\* strconv.Itoa
Itoa(n) == IF n < 0 THEN <<"-">> \o ItoaNat(-n) ELSE ItoaNat(n)

RECURSIVE DigitsVal(_, _)
DigitsVal(s, acc) ==
    IF s = <<>> THEN acc ELSE DigitsVal(Tail(s), acc * 10 + DigitVal(Head(s)))

\* strconv.Atoi: an optional sign, then one or more decimal digits
Atoi(s) ==
    LET signed == s # <<>> /\ Head(s) \in {"+", "-"}
        body   == IF signed THEN Tail(s) ELSE s
        ok     == body # <<>> /\ \A i \in 1..Len(body) : IsDigit(body[i])
    IN  IF ~ok THEN [val |-> 0, err |-> TRUE]
        ELSE [val |-> (IF signed /\ Head(s) = "-" THEN -1 ELSE 1) * DigitsVal(body, 0),
              err |-> FALSE]

\* strings.TrimPrefix(s, "$")
TrimDollar(s) == IF s # <<>> /\ Head(s) = "$" THEN Tail(s) ELSE s

\* strings.ReplaceAll(s, ".", "")
RemoveDots(s) == SelectSeq(s, LAMBDA c : c # ".")

\* strings.Repeat("0", n)
Zeros(n) == [i \in 1..n |-> "0"]

\* amountToInt with the error of strconv.Atoi dropped
amountToInt_SwallowError(amount) ==
    [val |-> Atoi(RemoveDots(TrimDollar(amount))).val, err |-> FALSE]

\* amountToInt: (amountInt, err), amountInt being 0 when err is set
amountToInt(amount) ==
    LET r == Atoi(RemoveDots(TrimDollar(amount)))
    IN  IF r.err THEN [val |-> 0, err |-> TRUE] ELSE r

RECURSIVE InsertCommas(_, _)
\* for i := len(dollars) - 3; i > 0; i -= 3 { dollars = dollars[:i] + "," + dollars[i:] }
InsertCommas(dollars, i) ==
    IF i > 0
    THEN InsertCommas(SubSeq(dollars, 1, i) \o <<",">> \o SubSeq(dollars, i + 1, Len(dollars)),
                      i - 3)
    ELSE dollars

formatAmount(amount, includeCommas) ==
    LET itoa      == Itoa(amount)
        amountStr == IF Len(itoa) < 3 THEN Zeros(3 - Len(itoa)) \o itoa ELSE itoa
        dollars0  == SubSeq(amountStr, 1, Len(amountStr) - 2)
        cents     == SubSeq(amountStr, Len(amountStr) - 1, Len(amountStr))
        dollars   == IF includeCommas THEN InsertCommas(dollars0, Len(dollars0) - 3)
                     ELSE dollars0
        joined    == dollars \o <<".">> \o cents
    IN  IF amount < 0
        THEN SubSeq(joined, 1, 1) \o <<"$">> \o SubSeq(joined, 2, Len(joined))
        ELSE <<"$">> \o joined

(***************************************************************************)
(* Inputs: the configuration file, the command line and the CSV file.      *)
(***************************************************************************)
MaxRows == 2            \* CSV records read in one run
MaxDollars == 1         \* largest -toDeposit / deposit argument, in dollars

Stock(sym, units) == [Symbol |-> sym, TargetPercentage |-> units]

\* config.Stocks as decoded; TargetPercentage in hundredths of a percent
Policies ==
    { <<Stock("VOO", 8000), Stock("BND", 2000)>>,
      <<Stock("VOO", 5000), Stock("BND", 5000)>>,
      <<Stock("VOO", 2332), Stock("BND", 4567), Stock("VXUS", 3101)>>,
      <<Stock("VOO", 3333), Stock("BND", 3333), Stock("VXUS", 3334)>>,
      <<Stock("VOO", 5000), Stock("VOO", 5000)>>,
      <<Stock("VOO", 6000), Stock("BND", 3000)>>,
      <<>> }

AllSymbols == {"VOO", "BND", "VXUS", "CASH"}

\* the "Current Value" column
AmountStrings ==
    { <<"$", "8", "0", ".", "0", "0">>,
      <<"0", ".", "0", "2">>,
      <<"0", ".", "0", "1">>,
      <<"-", "0", ".", "0", "3">>,
      <<"n", "/", "a">> }

\* what reader.Read() can return: a record, or csv.ErrFieldCount
Records ==
    [kind : {"record"}, Symbol : {"VOO", "BND"}, Value : AmountStrings]
    \cup { [kind |-> "record", Symbol |-> "CASH", Value |-> <<"$", "8", "0", ".", "0", "0">>],
           [kind |-> "record", Symbol |-> "CASH", Value |-> <<"n", "/", "a">>],
           [kind |-> "fieldcount", Symbol |-> "", Value |-> <<>>] }

NoArg == [fn |-> "none", amount |-> 0, includeCommas |-> FALSE, s |-> <<>>]
NoRet == [val |-> 0, err |-> FALSE, str |-> <<>>]

\* int(NaN): Go leaves the result of converting a float64 that is not
\* representable to the implementation (amd64: the minimum int, arm64: 0).
\* MinInt stands for -2^63.
MinInt == -2147483647
NaNToInt == {MinInt, 0}

(***************************************************************************)
(* main                                                                    *)
(***************************************************************************)
Init ==
    /\ pc = "main"
    /\ config \in Policies
    /\ cmd \in {"rebalance", "deposit"}
    /\ argAmount \in 0..MaxDollars
    /\ total = 0
    /\ amountsBySymbol = [sym \in AllSymbols |-> 0]
    /\ processed = <<>>
    /\ report = <<>>
    /\ totalLine = <<>>
    /\ deposits = <<>>
    /\ status = "running"
    /\ arg = NoArg
    /\ ret = NoRet

\* parseConfig without the validation of the sum (as in src/unnamed/part_000)
parseConfigOk_NoCheck(stocks) == TRUE

\* parseConfig's validation of the decoded configuration
parseConfigOk(stocks) == SumOk(stocks)

\* main: parseConfig, then the sub-command or os.Exit(1)
ParseConfig ==
    /\ pc = "main"
    /\ IF parseConfigOk(config)
       THEN pc' = cmd /\ status' = status
       ELSE pc' = "exit" /\ status' = "config error"
    /\ UNCHANGED <<config, cmd, argAmount, total, amountsBySymbol, processed,
                   report, totalLine, deposits, arg, ret>>

\* every symbol taken as tracked
symbolsToRebalance_All(stocks, sym) == TRUE

\* symbolsToRebalance[symbol]
symbolsToRebalance(stocks, sym) == \E i \in 1..Len(stocks) : stocks[i].Symbol = sym

\* total := 0 in place of total := toDeposit (as in src/unnamed/part_000:103)
RebalanceStart_NoDeposit ==
    /\ pc = "rebalance"
    /\ pc' = "reading"
    /\ total' = 0
    /\ UNCHANGED <<config, cmd, argAmount, amountsBySymbol, processed, report,
                   totalLine, deposits, status, arg, ret>>

\* rebalance up to the first reader.Read() of a record: toDeposit *= 100,
\* total := toDeposit
RebalanceStart ==
    /\ pc = "rebalance"
    /\ pc' = "reading"
    /\ total' = argAmount * 100
    /\ UNCHANGED <<config, cmd, argAmount, amountsBySymbol, processed, report,
                   totalLine, deposits, status, arg, ret>>

\* rebalance: the file cannot be opened, or its header lacks a column
RebalanceNoInput ==
    /\ pc = "rebalance"
    /\ pc' = "done"
    /\ status' = "input error"
    /\ UNCHANGED <<config, cmd, argAmount, total, amountsBySymbol, processed,
                   report, totalLine, deposits, arg, ret>>

\* amountsBySymbol[symbol] = amount in place of +=
AddAmount_Overwrite(tot, amounts, sym, amount) ==
    [total |-> tot + amount,
     amounts |-> [amounts EXCEPT ![sym] = amount]]

\* total and amountsBySymbol after one tracked record
AddAmount(tot, amounts, sym, amount) ==
    [total |-> tot + amount,
     amounts |-> [amounts EXCEPT ![sym] = @ + amount]]

\* one iteration of the read loop on a record or a field-count error
ReadRecord ==
    /\ pc = "reading"
    /\ Len(processed) < MaxRows
    /\ \E rec \in Records :
        /\ processed' = Append(processed, rec)
        /\ IF rec.kind = "fieldcount" \/ ~symbolsToRebalance(config, rec.Symbol)
           THEN UNCHANGED <<pc, total, amountsBySymbol, status>>
           ELSE LET parsed == amountToInt(rec.Value)
                    next   == AddAmount(total, amountsBySymbol, rec.Symbol, parsed.val)
                IN  /\ total' = next.total
                    /\ amountsBySymbol' = next.amounts
                    /\ IF parsed.err
                       THEN pc' = "done" /\ status' = "parse error"
                       ELSE UNCHANGED <<pc, status>>
    /\ UNCHANGED <<config, cmd, argAmount, report, totalLine, deposits, arg, ret>>

\* int(math.Floor(x)) in place of int(math.Round(x)) (as in src/main.go:375)
RoundInt_Floor(x, nanInt) == IF x.k = "fin" THEN FloorToInt(x) ELSE nanInt

\* int(math.Round(x)); nanInt is what the build gives for int(NaN)
RoundInt(x, nanInt) == IF x.k = "fin" THEN RoundToInt(x) ELSE nanInt

\* the SymbolData of one stock
SymbolData(stock, tot, amounts, nanInt) ==
    LET currentAmount     == amounts[stock.Symbol]
        currentPercentage == CurrentPercentage(currentAmount, tot)
        drift             == Drift(currentPercentage, Pct(stock.TargetPercentage))
    IN  [Symbol            |-> stock.Symbol,
         Amount            |-> currentAmount,
         CurrentPercentage |-> currentPercentage,
         TargetPercentage  |-> Pct(stock.TargetPercentage),
         Drift             |-> drift,
         AmountNeeded      |-> RoundInt(AmountNeededF(tot, drift), nanInt)]

\* io.EOF: the loop over config.Stocks prints one entry per stock, then
\* the total line
ReadEOF ==
    /\ pc = "reading"
    /\ \E nanInt \in NaNToInt :
        report' = [i \in 1..Len(config) |->
                      SymbolData(config[i], total, amountsBySymbol, nanInt)]
    /\ totalLine' = <<total>>
    /\ pc' = "done"
    /\ status' = "ok"
    /\ UNCHANGED <<config, cmd, argAmount, total, amountsBySymbol, processed,
                   deposits, arg, ret>>

\* int(math.Floor(float64(amount) * (stock.TargetPercentage / 100)))
amountToDeposit(amount, stock) ==
    FloorToInt(DepositShareF(amount, Pct(stock.TargetPercentage)))

\* deposit: amount *= 100, one line per stock; total is accumulated and
\* never printed
Deposit ==
    /\ pc = "deposit"
    /\ deposits' = [i \in 1..Len(config) |->
                       [Symbol |-> config[i].Symbol,
                        AmountToDeposit |-> amountToDeposit(argAmount * 100, config[i])]]
    /\ pc' = "done"
    /\ status' = "ok"
    /\ UNCHANGED <<config, cmd, argAmount, total, amountsBySymbol, processed,
                   report, totalLine, arg, ret>>

Next ==
    \/ ParseConfig
    \/ RebalanceStart
    \/ RebalanceNoInput
    \/ ReadRecord
    \/ ReadEOF
    \/ Deposit

Spec == Init /\ [][Next]_vars

(***************************************************************************)
(* amountToInt and formatAmount on their own: Init draws the argument,     *)
(* the actions apply the function.                                         *)
(***************************************************************************)
MaxMantissa == 125      \* formatAmount arguments are +-m * 10^k, m <= MaxMantissa,
MaxExponent == 5        \* k <= MaxExponent
MaxIntDigits == 3       \* integer digits of an amountToInt argument
MaxCentsDigits == 2     \* digits after its decimal point

FormatArgs ==
    { [fn |-> "formatAmount", amount |-> sg * m * 10^k, includeCommas |-> b, s |-> <<>>] :
          sg \in {-1, 1}, m \in 0..MaxMantissa, k \in 0..MaxExponent, b \in BOOLEAN }

DigitStrings(n) == UNION { [1..len -> {"0", "1", "9"}] : len \in 0..n }

\* well-formed dollar strings: an optional "$", digits, and optionally a
\* decimal point followed by cents digits
DollarStrings ==
    { prefix \o int \o frac :
          prefix \in {<<>>, <<"$">>},
          int    \in DigitStrings(MaxIntDigits) \ {<<>>},
          frac   \in {<<>>} \cup { <<".">> \o c : c \in DigitStrings(MaxCentsDigits) \ {<<>>} } }

ParseArgs ==
    { [fn |-> "amountToInt", amount |-> 0, includeCommas |-> b, s |-> str] :
          str \in DollarStrings, b \in BOOLEAN }

MoneyInit ==
    /\ pc = "call"
    /\ arg \in FormatArgs \cup ParseArgs
    /\ ret = NoRet
    /\ config = <<>>
    /\ cmd = "none"
    /\ argAmount = 0
    /\ total = 0
    /\ amountsBySymbol = [sym \in AllSymbols |-> 0]
    /\ processed = <<>>
    /\ report = <<>>
    /\ totalLine = <<>>
    /\ deposits = <<>>
    /\ status = "running"

CallFormatAmount ==
    /\ pc = "call"
    /\ arg.fn = "formatAmount"
    /\ ret' = [val |-> arg.amount, err |-> FALSE,
               str |-> formatAmount(arg.amount, arg.includeCommas)]
    /\ pc' = "formatted"
    /\ UNCHANGED <<progVars, arg>>

CallAmountToInt ==
    /\ pc = "call"
    /\ arg.fn = "amountToInt"
    /\ LET r == amountToInt(arg.s) IN ret' = [val |-> r.val, err |-> r.err, str |-> <<>>]
    /\ pc' = "parsed"
    /\ UNCHANGED <<progVars, arg>>

\* the parsed amount is printed
FormatParsed ==
    /\ pc = "parsed"
    /\ ~ret.err
    /\ ret' = [ret EXCEPT !.str = formatAmount(ret.val, arg.includeCommas)]
    /\ pc' = "printed"
    /\ UNCHANGED <<progVars, arg>>

MoneyNext ==
    \/ CallFormatAmount
    \/ CallAmountToInt
    \/ FormatParsed

SpecMoney == MoneyInit /\ [][MoneyNext]_vars

(***************************************************************************)
(* Properties.                                                             *)
(***************************************************************************)
RECURSIVE SumOver(_, _)
SumOver(S, f) ==
    IF S = {} THEN 0
    ELSE LET x == CHOOSE y \in S : TRUE IN f[x] + SumOver(S \ {x}, f)

Tracked == { config[i].Symbol : i \in 1..Len(config) }

\* the cents a record carries: its parsed amount
RowCents(rec) == amountToInt(rec.Value).val

RECURSIVE SumRows(_, _)
\* the sum of the amounts of the records of rows that carry sym
SumRows(rows, sym) ==
    IF rows = <<>> THEN 0
    ELSE (IF Head(rows).kind = "record" /\ Head(rows).Symbol = sym
          THEN RowCents(Head(rows)) ELSE 0) + SumRows(Tail(rows), sym)

RebalanceRunning == cmd = "rebalance" /\ pc \in {"reading", "done"} /\ status # "input error"

Reported == cmd = "rebalance" /\ pc = "done" /\ status = "ok"

\* C1: after any sequence of rows, and when the drift entries are computed,
\* total = pending deposit + the sum of the per-symbol amounts, and each
\* per-symbol amount is the exact sum of the amounts of the rows with that
\* symbol (nothing is held for symbols outside the policy).
C1_TotalIsDepositPlusHoldings ==
    RebalanceRunning =>
        /\ total = argAmount * 100 + SumOver(AllSymbols, amountsBySymbol)
        /\ \A sym \in Tracked : amountsBySymbol[sym] = SumRows(processed, sym)
        /\ \A sym \in AllSymbols \ Tracked : amountsBySymbol[sym] = 0
        /\ Reported =>
              /\ totalLine = <<total>>
              /\ \A i \in 1..Len(report) :
                    report[i].Amount = SumRows(processed, report[i].Symbol)

C1_Witness ==
    /\ Reported
    /\ argAmount = 1
    /\ Len(processed) = 2
    /\ processed[1].Symbol = "VOO" /\ processed[2].Symbol = "VOO"
    /\ amountsBySymbol["VOO"] = 8002
    /\ total = 8102

\* the exact gap of report entry i, in units of 1/(100 * PctScale) cent:
\* target share of the total minus the current amount
Gap(i) == total * config[i].TargetPercentage - report[i].Amount * 100 * PctScale

HalfAway(n, d) == Sgn(n) * ((2 * Abs(n) + d) \div (2 * d))

\* C2 (as stated): whenever total > 0, amountNeeded is the gap rounded half
\* away from zero, positive exactly when the symbol is underweight and
\* negative exactly when it is overweight.
C2_RoundedHalfAwaySignExact ==
    (Reported /\ total > 0) =>
        \A i \in 1..Len(report) :
            /\ report[i].AmountNeeded = HalfAway(Gap(i), 100 * PctScale)
            /\ report[i].AmountNeeded > 0 <=> Gap(i) > 0
            /\ report[i].AmountNeeded < 0 <=> Gap(i) < 0

\* C2 (amended): whenever total > 0, amountNeeded is an integer nearest to
\* the gap (within half a cent of it; on an exact half-cent tie either
\* neighbour), hence never negative for an underweight symbol, never
\* positive for an overweight one, and zero when the gap is under half a cent.
C2_NearestCentSignWeak ==
    (Reported /\ total > 0) =>
        \A i \in 1..Len(report) :
            2 * Abs(report[i].AmountNeeded * 100 * PctScale - Gap(i)) <= 100 * PctScale

\* a tie that the float64 evaluation resolves toward zero, next to one it
\* resolves away from zero
C2_Witness ==
    /\ Reported
    /\ total = 3
    /\ Len(report) = 2
    /\ config[1].TargetPercentage = 5000
    /\ report[1].Amount = 2 /\ report[1].AmountNeeded = 0
    /\ report[2].Amount = 1 /\ report[2].AmountNeeded = 1

\* C3: with total <= 0 rebalance fails with ZeroTotalError and produces no
\* report.
C3_ZeroTotalFails ==
    (cmd = "rebalance" /\ pc = "done" /\ total <= 0) =>
        /\ status # "ok"
        /\ report = <<>>
        /\ totalLine = <<>>

RECURSIVE UnitsSum(_)
UnitsSum(stocks) ==
    IF stocks = <<>> THEN 0 ELSE Head(stocks).TargetPercentage + UnitsSum(Tail(stocks))

\* two-place decimals differ from 100 by a multiple of 0.01, so they are
\* within 1e-9 of 100 exactly when they sum to 100
SumsToFull(stocks) == UnitsSum(stocks) = 100 * PctScale

\* C4: configurations whose targets do not sum to 100 (within 1e-9) are
\* rejected with an error, and neither rebalance nor deposit runs on them.
C4_SumValidated ==
    (pc # "main" /\ ~SumsToFull(config)) =>
        /\ pc = "exit"
        /\ status = "config error"
        /\ report = <<>> /\ deposits = <<>> /\ processed = <<>> /\ totalLine = <<>>

C4_Witness ==
    /\ pc = "exit"
    /\ status = "config error"
    /\ UnitsSum(config) = 90 * PctScale

RECURSIVE SumShares(_)
SumShares(lines) ==
    IF lines = <<>> THEN 0
    ELSE (IF Head(lines).Symbol = "Remainder" THEN 0 ELSE Head(lines).AmountToDeposit)
         + SumShares(Tail(lines))

\* C5: deposit gives each entry floor(deposit * target), the shares never
\* exceed the deposit, and a remainder line reports deposit - sum(shares).
C5_SharesAndRemainder ==
    (cmd = "deposit" /\ pc = "done") =>
        /\ \A i \in 1..Len(config) :
              /\ deposits[i].Symbol = config[i].Symbol
              /\ deposits[i].AmountToDeposit =
                    (argAmount * 100 * config[i].TargetPercentage) \div (100 * PctScale)
        /\ SumShares(deposits) <= argAmount * 100
        /\ \E i \in 1..Len(deposits) :
              /\ deposits[i].Symbol = "Remainder"
              /\ deposits[i].AmountToDeposit = argAmount * 100 - SumShares(deposits)

UntrackedRead ==
    /\ pc = "reading"
    /\ Len(processed') = Len(processed) + 1
    /\ processed'[Len(processed')].kind = "record"
    /\ processed'[Len(processed')].Symbol \notin Tracked

\* C6: reading a record whose symbol is not in the policy changes neither
\* the total nor any per-symbol amount, raises no error, and the loop goes on.
C6_UntrackedIgnored ==
    [][UntrackedRead =>
          /\ total' = total
          /\ amountsBySymbol' = amountsBySymbol
          /\ status' = status
          /\ pc' = "reading"]_vars

C6_Witness ==
    /\ Reported
    /\ Len(processed) = 2
    /\ processed[1].Symbol = "CASH" /\ processed[1].Value = <<"n", "/", "a">>
    /\ processed[2].Symbol = "VOO"
    /\ total = 8000
    /\ amountsBySymbol["CASH"] = 0

NoHoldings(sym) ==
    \A j \in 1..Len(processed) :
        ~(processed[j].kind = "record" /\ processed[j].Symbol = sym)

\* C7: a successful rebalance prints one drift entry per policy entry, in
\* policy order; a symbol without holdings rows has amount 0, current
\* percentage 0 and drift = -target.
C7_EntryPerStockInOrder ==
    Reported =>
        /\ Len(report) = Len(config)
        /\ \A i \in 1..Len(config) :
              /\ report[i].Symbol = config[i].Symbol
              /\ NoHoldings(config[i].Symbol) =>
                    /\ report[i].Amount = 0
                    /\ IsZero(report[i].CurrentPercentage)
                    /\ FEq(report[i].Drift, FNeg(Pct(config[i].TargetPercentage)))

DuplicateSymbol(stocks) ==
    \E i, j \in 1..Len(stocks) : i # j /\ stocks[i].Symbol = stocks[j].Symbol

\* C8: a policy in which two entries claim the same symbol is rejected, so
\* no holdings row counts toward two drift entries.
C8_DuplicatesRejected ==
    /\ (pc # "main" /\ DuplicateSymbol(config)) => (pc = "exit" /\ status # "ok")
    /\ Reported =>
          \A j \in 1..Len(processed) :
              Cardinality({ i \in 1..Len(report) :
                              /\ processed[j].kind = "record"
                              /\ report[i].Symbol = processed[j].Symbol }) <= 1

\* [-]$D.CC: the sign only for negative amounts and before the "$", one or
\* more integer digits, two cents digits; with separators a "," before
\* every group of three integer digits and nowhere else
MoneyForm(str, amount, includeCommas) ==
    LET neg  == amount < 0
        body == IF neg THEN Tail(str) ELSE str
        num  == Tail(body)
        n    == Len(num) - 3        \* length of the integer part
    IN  /\ str # <<>>
        /\ neg => Head(str) = "-"
        /\ body # <<>> /\ Head(body) = "$"
        /\ n >= 1
        /\ num[n + 1] = "."
        /\ IsDigit(num[n + 2]) /\ IsDigit(num[n + 3])
        /\ \A i \in 1..n :
              IF includeCommas /\ (n - i + 1) % 4 = 0 /\ i > 1
              THEN num[i] = ","
              ELSE IsDigit(num[i])
        /\ includeCommas => (n % 4 # 0)

\* C9: formatAmount returns [-]$D.CC for every amount and either flag.
C9_FormatShape ==
    pc = "formatted" => MoneyForm(ret.str, arg.amount, arg.includeCommas)

\* the parts of a dollar string
AfterDollar(str) == TrimDollar(str)
DotAt(str) == IF \E i \in 1..Len(str) : str[i] = "."
              THEN CHOOSE i \in 1..Len(str) : str[i] = "." ELSE Len(str) + 1
IntPart(str) == SubSeq(AfterDollar(str), 1, DotAt(AfterDollar(str)) - 1)
CentsPart(str) == SubSeq(AfterDollar(str), DotAt(AfterDollar(str)) + 1, Len(AfterDollar(str)))

\* the number of cents a dollar string denotes
DenotedCents(str) ==
    LET c == CentsPart(str)
    IN  DigitsVal(IntPart(str), 0) * 100
        + (IF Len(c) = 0 THEN 0
           ELSE IF Len(c) = 1 THEN DigitVal(c[1]) * 10
           ELSE DigitsVal(c, 0))

RECURSIVE Grouped(_)
\* digits with a "," before every complete group of three
Grouped(ds) ==
    IF Len(ds) <= 3 THEN ds
    ELSE Grouped(SubSeq(ds, 1, Len(ds) - 3)) \o <<",">> \o SubSeq(ds, Len(ds) - 2, Len(ds))

\* the canonical rendering of a number of cents, cents >= 0
Canonical(cents, includeCommas) ==
    LET d == ItoaNat(cents \div 100)
    IN  <<"$">> \o (IF includeCommas THEN Grouped(d) ELSE d) \o <<".">>
        \o <<Digits[((cents % 100) \div 10) + 1], Digits[(cents % 10) + 1]>>

\* C10: amountToInt(s) is the number of cents a well-formed dollar string s
\* denotes, and formatting it gives the canonical rendering of that value.
C10_RoundTrip ==
    /\ pc = "parsed" => (~ret.err /\ ret.val = DenotedCents(arg.s))
    /\ pc = "printed" => ret.str = Canonical(DenotedCents(arg.s), arg.includeCommas)

\* a base-10 integer: an optional sign and one or more decimal digits
IsBase10Integer(str) ==
    LET body == IF str # <<>> /\ Head(str) \in {"+", "-"} THEN Tail(str) ELSE str
    IN  body # <<>> /\ \A i \in 1..Len(body) : IsDigit(body[i])

\* a record of a tracked symbol whose amount is not an integer once the
\* leading "$" and the decimal points are taken out
BadTrackedRow(rec) ==
    /\ rec.kind = "record"
    /\ rec.Symbol \in Tracked
    /\ ~IsBase10Integer(SelectSeq(TrimDollar(rec.Value), LAMBDA c : c # "."))

\* C11: at a tracked row whose amount does not parse, rebalance stops with
\* a parse error; the row adds nothing to the total or to any per-symbol
\* amount, and neither a drift entry nor the total line is printed.
C11_ParseErrorStops ==
    cmd = "rebalance" =>
        \A j \in 1..Len(processed) :
            BadTrackedRow(processed[j]) =>
                LET before == SubSeq(processed, 1, j - 1)
                IN  /\ j = Len(processed)
                    /\ pc = "done"
                    /\ status = "parse error"
                    /\ report = <<>>
                    /\ totalLine = <<>>
                    /\ \A sym \in AllSymbols :
                          amountsBySymbol[sym] =
                              IF sym \in Tracked THEN SumRows(before, sym) ELSE 0
                    /\ total = argAmount * 100 + SumOver(AllSymbols, amountsBySymbol)

C11_Witness ==
    /\ cmd = "rebalance"
    /\ status = "parse error"
    /\ argAmount = 1
    /\ Len(processed) = 2
    /\ processed[1] = [kind |-> "record", Symbol |-> "VOO", Value |-> <<"$", "8", "0", ".", "0", "0">>]
    /\ processed[2] = [kind |-> "record", Symbol |-> "BND", Value |-> <<"n", "/", "a">>]
    /\ total = 8100
    /\ report = <<>>

RECURSIVE SumNeeded(_)
SumNeeded(entries) ==
    IF entries = <<>> THEN 0
    ELSE Head(entries).AmountNeeded + SumNeeded(Tail(entries))

\* C12: for a validated policy of n entries with distinct symbols and
\* total > 0, the amounts needed sum to the pending deposit to within n/2
\* cents.
C12_NeededSumsToDeposit ==
    (Reported /\ total > 0 /\ ~DuplicateSymbol(config)) =>
        2 * Abs(SumNeeded(report) - argAmount * 100) <= Len(report)

\* a deposit of 100 cents on zero holdings, split 33 + 33 + 33
C12_Witness ==
    /\ Reported
    /\ argAmount = 1
    /\ total = 100
    /\ Len(report) = 3
    /\ \A i \in 1..3 : report[i].Amount = 0 /\ report[i].AmountNeeded = 33
    /\ SumNeeded(report) = 99

====
